---------------------------- MODULE Spec2Model ----------------------------
(***************************************************************************)
(* Model of medio/backends/pdcm_io.py (class PdcmIO): reading a DICOM file *)
(* or series directory into (array, metadata), moving the channels axis,   *)
(* and writing an array back into a template file.                         *)
(*                                                                         *)
(* Arrays are n-dimensional: a shape and the samples in C (row-major)      *)
(* order.  Axes and indices are 0-based as in numpy; TLA+ sequences are    *)
(* 1-based, so position p of a sequence holds axis p-1.                    *)
(***************************************************************************)
EXTENDS Integers, Sequences, FiniteSets, TLC

VARIABLES fs,      \* file system: path -> file content (NoFile, Garbage or a dataset)
          run,     \* run[r]: the last read_img call of caller r (arguments and outcome)
          rd,      \* the last read_img call of the read / write / read scenario
          wr,      \* the last save_arr2dcm_file call (arguments, outcome, array origin)
          arr,     \* the array the channel-axis scenario works on
          prevArr, \* the array before the last move_channels_axis call
          lastMove \* the last move_channels_axis call (arguments and status)

vars == <<fs, run, rd, wr, arr, prevArr, lastMove>>

\* Python's None for an optional argument: the empty tuple; a given value x is <<x>>
None == <<>>
Some(x) == <<x>>

\* no array (a call that raised returns nothing)
NoArray == [shape |-> <<>>, data |-> <<>>]

\* ------------------------------------------------------------------ arrays

RECURSIVE Prod(_)
Prod(s) == IF s = <<>> THEN 1 ELSE Head(s) * Prod(Tail(s))

\* stride[j]: the distance in C order between neighbours along axis j-1
Strides(shape) == [j \in 1..Len(shape) |-> Prod(SubSeq(shape, j + 1, Len(shape)))]

\* numpy.transpose(a, order): axis k of the result is axis order[k] of a.
\* The sample at result index i is the sample of a at the index that has i[k]
\* on axis order[k].
Transpose(a, order) ==
  LET n    == Len(a.shape)
      shp  == [k \in 1..n |-> a.shape[order[k] + 1]]
      from == Strides(a.shape)
      to   == Strides(shp)
      Offset[k \in 0..n, p \in 0..(Prod(shp) - 1)] ==
        IF k = 0 THEN 0
        ELSE Offset[k - 1, p] + ((p \div to[k]) % shp[k]) * from[order[k] + 1]
  IN  [shape |-> shp,
       data  |-> [p \in 1..Prod(shp) |-> a.data[Offset[n, p - 1] + 1]]]

\* ndarray.T: the axes reversed
T(a) == Transpose(a, [k \in 1..Len(a.shape) |-> Len(a.shape) - k])

\* numpy's normalize_axis_index: a negative axis counts from the end
NormalizeAxis(axis, ndim) == IF axis < 0 THEN axis + ndim ELSE axis

ValidAxis(axis, ndim) == axis \in (0 - ndim)..(ndim - 1)

\* insert x so that it ends at 0-based position pos of the list
InsertAt(s, pos, x) == SubSeq(s, 1, pos) \o <<x>> \o SubSeq(s, pos + 1, Len(s))

\* the list without the element x
RECURSIVE Without(_, _)
Without(s, x) ==
  IF s = <<>> THEN <<>>
  ELSE IF Head(s) = x THEN Without(Tail(s), x) ELSE <<Head(s)>> \o Without(Tail(s), x)

\* numpy.moveaxis(a, source, destination) for one axis; both axes valid
MoveAxisOrder(ndim, source, destination) ==
  LET src == NormalizeAxis(source, ndim)
      dst == NormalizeAxis(destination, ndim)
  IN  InsertAt(Without([k \in 1..ndim |-> k - 1], src), dst, src)

MoveAxis(a, source, destination) ==
  Transpose(a, MoveAxisOrder(Len(a.shape), source, destination))

\* ndarray.tobytes(): the samples in C order
ToBytes(a) == a.data

DEFAULT_CHANNELS_AXIS == 0

\* PdcmIO.move_channels_axis: [status, array]; numpy raises AxisError for an
\* axis out of range, and then nothing is returned
MoveChannelsAxisBug(array, samples_per_pixel, source, channels_axis) ==
  IF channels_axis # None
  THEN IF ValidAxis(source, Len(array.shape)) /\ ValidAxis(channels_axis[1], Len(array.shape))
       THEN [status |-> "ok", array |-> MoveAxis(array, source, channels_axis[1])]
       ELSE [status |-> "AxisError", array |-> NoArray]
  ELSE [status |-> "ok", array |-> array]

MoveChannelsAxis(array, samples_per_pixel, source, channels_axis) ==
  IF samples_per_pixel > 1 /\ channels_axis # None
  THEN IF ValidAxis(source, Len(array.shape)) /\ ValidAxis(channels_axis[1], Len(array.shape))
       THEN [status |-> "ok", array |-> MoveAxis(array, source, channels_axis[1])]
       ELSE [status |-> "AxisError", array |-> NoArray]
  ELSE [status |-> "ok", array |-> array]

\* ---------------------------------------------------------------- datasets
\* A dataset is a function from the keywords of the tags it holds to their
\* values.  A file is [kind |-> "none" | "garbage" | "dicom", ds |-> dataset].

Has(ds, tag) == tag \in DOMAIN ds

\* Dataset.get(tag, default)
Get(ds, tag, default) == IF Has(ds, tag) THEN ds[tag] ELSE default

WithTag(ds, tag, v) == [t \in DOMAIN ds \cup {tag} |-> IF t = tag THEN v ELSE ds[t]]

DelTag(ds, tag) == [t \in DOMAIN ds \ {tag} |-> ds[t]]

NoFile  == [kind |-> "none", ds |-> <<>>]
Garbage == [kind |-> "garbage", ds |-> <<>>]
Dicom(ds) == [kind |-> "dicom", ds |-> ds]

\* pydicom.dcmread: [status, ds]; the dataset read remembers its file name
Dcmread(fsys, filename) ==
  IF fsys[filename].kind = "none" THEN [status |-> "FileNotFoundError", ds |-> <<>>]
  ELSE IF fsys[filename].kind = "garbage" THEN [status |-> "InvalidDicomError", ds |-> <<>>]
  ELSE [status |-> "ok", ds |-> WithTag(fsys[filename].ds, "filename", filename)]

\* the tags of a dataset: everything but the file name attribute
Keys(ds) == DOMAIN ds \ {"filename"}

MultiFrameSOPClass == "EnhancedCTImageStorage"

\* convert_ds followed by the class test: the dataset becomes a
\* MultiFrameFileDataset when its SOP class is a multi-frame one
IsMultiFrame(ds) == Get(ds, "SOPClassUID", "") = MultiFrameSOPClass

\* Dataset.pixel_array: PixelData reshaped to (frames,) rows, columns (, samples)
PixelShape(ds) ==
  (IF Has(ds, "NumberOfFrames") THEN <<ds["NumberOfFrames"]>> ELSE <<>>)
  \o <<ds["Rows"], ds["Columns"]>>
  \o (IF ds["SamplesPerPixel"] > 1 THEN <<ds["SamplesPerPixel"]>> ELSE <<>>)

PixelArrayOk(ds) ==
  /\ {"PixelData", "Rows", "Columns", "SamplesPerPixel"} \subseteq DOMAIN ds
  /\ Len(ds["PixelData"]) = Prod(PixelShape(ds))

PixelArray(ds) == [shape |-> PixelShape(ds), data |-> ds["PixelData"]]

\* the dtype of Dataset.pixel_array
PixelDtype(ds) == "int16"

\* ------------------------------------------------------------------ sorting

\* the key of slices.sort: ds.get('InstanceNumber', 0)
SortKeyBug(ds) == Get(ds, "InstanceNumber", 1)

SortKey(ds) == Get(ds, "InstanceNumber", 0)

\* x placed behind every element whose key is not greater: list.sort is stable
RECURSIVE InsertSorted(_, _)
InsertSorted(sorted, x) ==
  IF sorted = <<>> THEN <<x>>
  ELSE IF SortKey(Head(sorted)) <= SortKey(x)
       THEN <<Head(sorted)>> \o InsertSorted(Tail(sorted), x)
       ELSE <<x>> \o sorted

RECURSIVE SortSlicesFrom(_, _)
SortSlicesFrom(sorted, rest) ==
  IF rest = <<>> THEN sorted
  ELSE SortSlicesFrom(InsertSorted(sorted, Head(rest)), Tail(rest))

\* slices.sort(key=lambda ds: ds.get('InstanceNumber', 0))
UnsortedSlices(slices) == slices

SortSlices(slices) == SortSlicesFrom(<<>>, slices)

\* --------------------------------------------------- reconstruction stages

Fail(status, parsed, calls) ==
  [status |-> status, img |-> NoArray, affine |-> <<>>, hasHeader |-> FALSE,
   header |-> <<>>, coord_sys |-> "", parsed |-> parsed, calls |-> calls,
   samples |-> <<>>]

\* dicom_numpy orders the slices by their position along the slice axis
RECURSIVE InsertByPosition(_, _)
InsertByPosition(sorted, x) ==
  IF sorted = <<>> THEN <<x>>
  ELSE IF Head(sorted)["ImagePositionPatient"] <= x["ImagePositionPatient"]
       THEN <<Head(sorted)>> \o InsertByPosition(Tail(sorted), x)
       ELSE <<x>> \o sorted

RECURSIVE SortByPositionFrom(_, _)
SortByPositionFrom(sorted, rest) ==
  IF rest = <<>> THEN sorted
  ELSE SortByPositionFrom(InsertByPosition(sorted, Head(rest)), Tail(rest))

SortByPosition(slices) == SortByPositionFrom(<<>>, slices)

\* through-slice spacing assumed for a series of one slice
SingleSliceSpacing == 1

\* dicom_numpy.combine_slices(slices): [status, img, affine], as the library
\* documents it (it is no part of this repository).  The slices must
\* share rows, columns and samples per pixel and lie on a uniform grid; they
\* are stacked by position along a new last axis, each as its transposed pixel
\* array, and rescaled by slope and intercept when any slice holds a rescale tag.
CombineSlices(slices) ==
  LET n       == Len(slices)
      uniform ==
        /\ \A k \in 1..n :
             /\ PixelArrayOk(slices[k])
             /\ Has(slices[k], "ImagePositionPatient")
             /\ slices[k]["Rows"] = slices[1]["Rows"]
             /\ slices[k]["Columns"] = slices[1]["Columns"]
             /\ slices[k]["SamplesPerPixel"] = slices[1]["SamplesPerPixel"]
      sorted  == SortByPosition(slices)
      pos(k)  == sorted[k]["ImagePositionPatient"]
      spaced  == \A k \in 2..(n - 1) : pos(k + 1) - pos(k) = pos(2) - pos(1)
      rescale == \E k \in 1..n : Has(slices[k], "RescaleSlope") \/ Has(slices[k], "RescaleIntercept")
      px(k)   == T(PixelArray(sorted[k]))
      val(k, q) ==
        IF rescale
        THEN px(k).data[q] * Get(sorted[k], "RescaleSlope", 1) + Get(sorted[k], "RescaleIntercept", 0)
        ELSE px(k).data[q]
      shp     == px(1).shape \o <<n>>
  IN  IF n = 0 \/ ~uniform \/ ~spaced
      THEN [status |-> "DicomImportException", img |-> NoArray, affine |-> <<>>]
      ELSE [status |-> "ok",
            img    |-> [shape |-> shp,
                        data  |-> [p \in 1..Prod(shp) |-> val(((p - 1) % n) + 1, ((p - 1) \div n) + 1)]],
            affine |-> [origin |-> pos(1),
                        step   |-> IF n > 1 THEN pos(2) - pos(1) ELSE SingleSliceSpacing]]

\* unpack_dataset(ds, allow_default_affine): [status, img, affine].  Without
\* geometry tags the default affine is used when allowed, else the call fails.
UnpackDataset(ds, allow_default_affine) ==
  LET geo == Has(ds, "PerFrameFunctionalGroupsSequence")
      pos == ds["PerFrameFunctionalGroupsSequence"]
  IN  IF ~PixelArrayOk(ds)
      THEN [status |-> "AttributeError", img |-> NoArray, affine |-> <<>>]
      ELSE IF ~geo /\ ~allow_default_affine
      THEN [status |-> "GeometryError", img |-> NoArray, affine |-> <<>>]
      ELSE [status |-> "ok",
            img    |-> PixelArray(ds),
            affine |-> IF geo
                       THEN [origin |-> pos[1],
                             step   |-> IF Len(pos) > 1 THEN pos[2] - pos[1] ELSE SingleSliceSpacing]
                       ELSE [origin |-> 0, step |-> 1]]

\* str(key) of a tag
TagStr(t) ==
  CASE t = "SOPClassUID" -> "(0008, 0016)"
    [] t = "InstanceNumber" -> "(0020, 0013)"
    [] t = "ImagePositionPatient" -> "(0020, 0032)"
    [] t = "SamplesPerPixel" -> "(0028, 0002)"
    [] t = "NumberOfFrames" -> "(0028, 0008)"
    [] t = "Rows" -> "(0028, 0010)"
    [] t = "Columns" -> "(0028, 0011)"
    [] t = "RescaleIntercept" -> "(0028, 1052)"
    [] t = "RescaleSlope" -> "(0028, 1053)"
    [] t = "PixelValueTransformationSequence" -> "(0028, 9145)"
    [] t = "PerFrameFunctionalGroupsSequence" -> "(5200, 9230)"
    [] t = "PixelData" -> "(7fe0, 0010)"

\* ds[key]: the element of a tag
Element(ds, t) == [tag |-> t, value |-> ds[t]]

HeaderByKeyword(ds) == [t \in Keys(ds) |-> Element(ds, t)]

\* {str(key): ds[key] for key in ds.keys()}
HeaderOf(ds) ==
  [s \in {TagStr(t) : t \in Keys(ds)} |->
     Element(ds, CHOOSE t \in Keys(ds) : TagStr(t) = s)]

coord_sys == "itk"

\* ------------------------------------------------------------------ reading

\* the tail of read_dcm_file and read_dcm_dir: aff2meta, the header, and
\* move_channels_axis with the given dataset's SamplesPerPixel
Finish(stage, ds, withHeader, channels_axis, parsed, calls) ==
  IF stage.status # "ok" THEN Fail(stage.status, parsed, calls)
  ELSE IF ~Has(ds, "SamplesPerPixel") THEN Fail("AttributeError", parsed, calls)
  ELSE LET m == MoveChannelsAxis(stage.img, ds["SamplesPerPixel"],
                                 DEFAULT_CHANNELS_AXIS, channels_axis)
       IN  IF m.status # "ok" THEN Fail(m.status, parsed, calls)
           ELSE [status |-> "ok", img |-> m.array, affine |-> stage.affine,
                 hasHeader |-> withHeader,
                 header |-> IF withHeader THEN HeaderOf(ds) ELSE <<>>,
                 coord_sys |-> coord_sys, parsed |-> parsed, calls |-> calls,
                 samples |-> <<ds["SamplesPerPixel"]>>]

CombineCall(series) == [stage |-> "combine_slices", series |-> series, allow |-> <<>>]
UnpackCall(ds, allow) == [stage |-> "unpack_dataset", series |-> <<ds>>, allow |-> <<allow>>]

\* PdcmIO.read_dcm_file
ReadDcmFileAlways(fsys, filename, header, allow_default_affine, channels_axis) ==
  LET r == Dcmread(fsys, filename)
  IN  IF r.status # "ok" THEN Fail(r.status, <<filename>>, <<>>)
      ELSE Finish(UnpackDataset(r.ds, TRUE), r.ds, header, channels_axis,
                  <<filename>>, <<UnpackCall(r.ds, TRUE)>>)

ReadDcmFile(fsys, filename, header, allow_default_affine, channels_axis) ==
  LET r == Dcmread(fsys, filename)
  IN  IF r.status # "ok" THEN Fail(r.status, <<filename>>, <<>>)
      ELSE IF IsMultiFrame(r.ds)
      THEN Finish(UnpackDataset(r.ds, allow_default_affine), r.ds, header, channels_axis,
                  <<filename>>, <<UnpackCall(r.ds, allow_default_affine)>>)
      ELSE Finish(CombineSlices(<<r.ds>>), r.ds, header, channels_axis,
                  <<filename>>, <<CombineCall(<<r.ds>>)>>)

\* the files of the list up to and including the first one dcmread fails on
RECURSIVE ParsedPrefix(_, _)
ParsedPrefix(fsys, files) ==
  IF files = <<>> THEN <<>>
  ELSE IF Dcmread(fsys, Head(files)).status # "ok" THEN <<Head(files)>>
  ELSE <<Head(files)>> \o ParsedPrefix(fsys, Tail(files))

ReadDcmDirNoCheck(fsys, files, channels_axis) ==
  LET parsed == ParsedPrefix(fsys, files)
      last   == Dcmread(fsys, parsed[Len(parsed)])
  IN  IF Len(files) > 0 /\ last.status # "ok" THEN Fail(last.status, parsed, <<>>)
      ELSE LET slices == SortSlices([k \in 1..Len(files) |-> Dcmread(fsys, files[k]).ds])
           IN  Finish(CombineSlices(slices), slices[1], FALSE, channels_axis,
                      parsed, <<CombineCall(slices)>>)

\* PdcmIO.read_dcm_dir; files is list(Path(input_dir).glob(globber)), in the
\* order the file system enumerates it
ReadDcmDir(fsys, files, channels_axis) ==
  IF Len(files) = 0 THEN Fail("FileNotFoundError", <<>>, <<>>)
  ELSE LET parsed == ParsedPrefix(fsys, files)
           last   == Dcmread(fsys, parsed[Len(parsed)])
       IN  IF last.status # "ok" THEN Fail(last.status, parsed, <<>>)
           ELSE LET slices == SortSlices([k \in 1..Len(files) |-> Dcmread(fsys, files[k]).ds])
                IN  Finish(CombineSlices(slices), slices[1], FALSE, channels_axis,
                           parsed, <<CombineCall(slices)>>)

\* PdcmIO.read_img; files is the enumeration of the glob when input_path is
\* a directory
IsDir(path) == path = "series"

ReadImg(fsys, input_path, header, channels_axis, files, allow_default_affine) ==
  IF IsDir(input_path)
  THEN ReadDcmDir(fsys, files, channels_axis)
  ELSE ReadDcmFile(fsys, input_path, header, allow_default_affine, channels_axis)

\* ------------------------------------------------------------------ writing

\* no dtype given
NoDtype == "None"

\* ndarray.astype(dtype, copy=False): [status, array]; int16 keeps 16 bits
\* (two's complement), a name that is no dtype raises TypeError
Cast(array, dtype) ==
  IF dtype = "int16"
  THEN [status |-> "ok",
        array  |-> [shape |-> array.shape,
                    data  |-> [p \in 1..Len(array.data) |->
                                 ((array.data[p] + 32768) % 65536) - 32768]]]
  ELSE [status |-> "TypeError", array |-> NoArray]

\* MultiFrameFileDataset.del_intensity_trans
DelIntensityTrans(ds) ==
  IF Has(ds, "PixelValueTransformationSequence")
  THEN [status |-> "ok", ds |-> DelTag(ds, "PixelValueTransformationSequence")]
  ELSE [status |-> "AttributeError", ds |-> ds]

StripRescaleAlways(ds, keep_rescale) ==
  IF IsMultiFrame(ds) THEN DelIntensityTrans(ds)
  ELSE IF Has(ds, "RescaleSlope") /\ Has(ds, "RescaleIntercept")
  THEN [status |-> "ok", ds |-> DelTag(DelTag(ds, "RescaleSlope"), "RescaleIntercept")]
  ELSE [status |-> "AttributeError", ds |-> ds]

StripRescaleLenient(ds, keep_rescale) ==
  IF keep_rescale THEN [status |-> "ok", ds |-> ds]
  ELSE IF IsMultiFrame(ds) THEN DelIntensityTrans(ds)
  ELSE [status |-> "ok", ds |-> DelTag(DelTag(ds, "RescaleSlope"), "RescaleIntercept")]

\* the removal of the intensity transform unless keep_rescale: [status, ds];
\* del of a tag the dataset does not hold raises AttributeError
StripRescale(ds, keep_rescale) ==
  IF keep_rescale THEN [status |-> "ok", ds |-> ds]
  ELSE IF IsMultiFrame(ds) THEN DelIntensityTrans(ds)
  ELSE IF Has(ds, "RescaleSlope") /\ Has(ds, "RescaleIntercept")
  THEN [status |-> "ok", ds |-> DelTag(DelTag(ds, "RescaleSlope"), "RescaleIntercept")]
  ELSE [status |-> "AttributeError", ds |-> ds]

\* the cast of img_arr: to the template's pixel dtype when no dtype is given
CastFor(ds, img_arr, dtype) ==
  IF dtype = NoDtype
  THEN IF PixelArrayOk(ds) THEN Cast(img_arr, PixelDtype(ds))
       ELSE [status |-> "AttributeError", array |-> NoArray]
  ELSE Cast(img_arr, dtype)

\* Dataset.save_as(filename): the file is opened for writing, which empties
\* it, and then written; disk says where the file system lets it down
SaveAs(fsys, filename, ds, disk) ==
  IF disk = "open_fails" THEN [status |-> "OSError", fs |-> fsys]
  ELSE IF disk = "write_fails"
  THEN [status |-> "OSError", fs |-> [fsys EXCEPT ![filename] = Garbage]]
  ELSE [status |-> "ok", fs |-> [fsys EXCEPT ![filename] = Dicom(DelTag(ds, "filename"))]]

SaveArr2DcmFileToTemplate(fsys, output_filename, template_filename, img_arr, dtype, keep_rescale, disk) ==
  LET r == Dcmread(fsys, template_filename)
      d == StripRescale(r.ds, keep_rescale)
      c == CastFor(d.ds, img_arr, dtype)
  IN  IF r.status # "ok" THEN [status |-> r.status, fs |-> fsys]
      ELSE IF d.status # "ok" THEN [status |-> d.status, fs |-> fsys]
      ELSE IF c.status # "ok" THEN [status |-> c.status, fs |-> fsys]
      ELSE SaveAs(fsys, template_filename, WithTag(d.ds, "PixelData", ToBytes(c.array)), disk)

SaveArr2DcmFileEager(fsys, output_filename, template_filename, img_arr, dtype, keep_rescale, disk) ==
  LET r == Dcmread(fsys, template_filename)
      d == StripRescale(r.ds, keep_rescale)
      c == CastFor(d.ds, img_arr, dtype)
      early == [fsys EXCEPT ![output_filename] = Dicom(DelTag(r.ds, "filename"))]
  IN  IF r.status # "ok" THEN [status |-> r.status, fs |-> fsys]
      ELSE IF d.status # "ok" THEN [status |-> d.status, fs |-> early]
      ELSE IF c.status # "ok" THEN [status |-> c.status, fs |-> early]
      ELSE SaveAs(fsys, output_filename, WithTag(d.ds, "PixelData", ToBytes(c.array)), disk)

\* PdcmIO.save_arr2dcm_file: [status, fs]
SaveArr2DcmFile(fsys, output_filename, template_filename, img_arr, dtype, keep_rescale, disk) ==
  LET r == Dcmread(fsys, template_filename)
      d == StripRescale(r.ds, keep_rescale)
      c == CastFor(d.ds, img_arr, dtype)
  IN  IF r.status # "ok" THEN [status |-> r.status, fs |-> fsys]
      ELSE IF d.status # "ok" THEN [status |-> d.status, fs |-> fsys]
      ELSE IF c.status # "ok" THEN [status |-> c.status, fs |-> fsys]
      ELSE SaveAs(fsys, output_filename, WithTag(d.ds, "PixelData", ToBytes(c.array)), disk)

\* ------------------------------------------------------------- file system

DirEntries == {"series/1.dcm", "series/2.dcm", "series/3.ima"}
FilePaths  == DirEntries \cup {"scan.dcm", "out.dcm"}

Suffix(p) == IF p = "series/3.ima" THEN "ima" ELSE "dcm"

Globbers == {"*", "*.dcm", "*.nii"}

Matches(globber, p) ==
  \/ globber = "*"
  \/ globber = "*.dcm" /\ Suffix(p) = "dcm"
  \/ globber = "*.nii" /\ Suffix(p) = "nii"

\* the files of the directory the pattern selects
Glob(fsys, globber) == {p \in DirEntries : fsys[p].kind # "none" /\ Matches(globber, p)}

\* the orders in which the file system may enumerate a set of files
Enumerations(S) ==
  {e \in [1..Cardinality(S) -> S] : \A p \in S : \E k \in 1..Cardinality(S) : e[k] = p}

\* ------------------------------------------------------------ read scenario

MaxInstance == 2

\* an instance number: absent, or 0 .. MaxInstance
InstOpts == {None} \cup {Some(v) : v \in 0..MaxInstance}

\* slice i of a series: 1 row, 2 columns, at position i
SliceDs(i, inst, spp) ==
  LET base == [SOPClassUID |-> "CTImageStorage", ImagePositionPatient |-> i,
               Rows |-> 1, Columns |-> 2, SamplesPerPixel |-> spp,
               PixelData |-> [q \in 1..(2 * spp) |-> 10 * i + q]]
  IN  IF inst = None THEN base ELSE WithTag(base, "InstanceNumber", inst[1])

\* a single-frame scan with an intensity transform
SingleScan ==
  [SOPClassUID |-> "CTImageStorage", InstanceNumber |-> 1, ImagePositionPatient |-> 5,
   Rows |-> 2, Columns |-> 2, SamplesPerPixel |-> 1, PixelData |-> <<1, 2, 3, 4>>,
   RescaleSlope |-> 2, RescaleIntercept |-> -1]

ColorScan ==
  [SOPClassUID |-> "CTImageStorage", ImagePositionPatient |-> 5,
   Rows |-> 1, Columns |-> 2, SamplesPerPixel |-> 3, PixelData |-> <<1, 2, 3, 4, 5, 6>>]

MultiScanNoGeo ==
  [SOPClassUID |-> MultiFrameSOPClass, NumberOfFrames |-> 2,
   Rows |-> 1, Columns |-> 2, SamplesPerPixel |-> 1, PixelData |-> <<1, 2, 3, 4>>]

MultiScan == WithTag(MultiScanNoGeo, "PerFrameFunctionalGroupsSequence", <<3, 5>>)

Fs(f1, f2, f3, scan, out) ==
  [p \in FilePaths |->
     CASE p = "series/1.dcm" -> f1
       [] p = "series/2.dcm" -> f2
       [] p = "series/3.ima" -> f3
       [] p = "scan.dcm" -> scan
       [] p = "out.dcm" -> out]

ReadFileSystems ==
  {Fs(Dicom(SliceDs(1, i1, spp)), Dicom(SliceDs(2, i2, spp)), Dicom(SliceDs(3, i3, spp)),
      NoFile, NoFile) : i1 \in InstOpts, i2 \in InstOpts, i3 \in InstOpts, spp \in {1, 3}}
  \cup {Fs(NoFile, NoFile, NoFile, scan, NoFile) :
          scan \in {NoFile, Garbage, Dicom(SingleScan), Dicom(ColorScan),
                    Dicom(MultiScan), Dicom(MultiScanNoGeo)}}
  \cup {Fs(Dicom(SliceDs(1, None, 1)), Garbage, Dicom(SliceDs(3, None, 1)), NoFile, NoFile),
        Fs(Dicom(SliceDs(1, None, 1)), Dicom(SliceDs(2, None, 3)), NoFile, NoFile, NoFile),
        Fs(Dicom(SliceDs(1, Some(1), 3)), NoFile, Dicom(SliceDs(3, Some(0), 3)), NoFile, NoFile)}

ChannelArgs == {None, Some(-1)}

AxisIdle == arr = NoArray /\ prevArr = NoArray /\ lastMove = <<>>

InitRead ==
  /\ fs \in ReadFileSystems
  /\ run = <<>>
  /\ rd = <<>> /\ wr = <<>>
  /\ AxisIdle

\* a caller reads a file or a directory (one call per scenario)
ReadImgCall ==
  /\ run = <<>>
  /\ \E input_path \in {"series", "scan.dcm"}, header \in BOOLEAN,
     channels_axis \in ChannelArgs, allow \in BOOLEAN :
      \E globber \in (IF IsDir(input_path) THEN Globbers ELSE {"*"}) :
        \E files \in Enumerations(IF IsDir(input_path) THEN Glob(fs, globber) ELSE {}) :
          /\ run' = [input_path |-> input_path, header |-> header,
                     channels_axis |-> channels_axis, globber |-> globber,
                     allow |-> allow, files |-> files,
                     out |-> ReadImg(fs, input_path, header, channels_axis, files, allow)]
          /\ UNCHANGED <<fs, rd, wr, arr, prevArr, lastMove>>

NextRead == ReadImgCall

SpecRead == InitRead /\ [][NextRead]_vars

\* ------------------------------------------------- claims: read scenario

DirRead  == run # <<>> /\ IsDir(run.input_path)
FileRead == run # <<>> /\ ~IsDir(run.input_path)

\* the error class the specification reserves for an empty directory; the
\* code defines no such class
EmptyInputError == "EmptyInputError"

EmptyGlobRead == DirRead /\ Glob(fs, run.globber) = {}

NothingRead ==
  /\ run.out.parsed = <<>>
  /\ run.out.calls = <<>>
  /\ run.out.img = NoArray /\ run.out.affine = <<>>

\* C1 (as stated): a directory read whose glob matches no file fails with the
\* dedicated EmptyInputError, before any file is parsed and before the series
\* combiner is invoked, and returns nothing.
C1_Original == EmptyGlobRead => run.out.status = EmptyInputError /\ NothingRead

\* C1 (amended): a directory read whose glob matches no file fails with
\* FileNotFoundError, the error a read of a nonexistent file path raises too,
\* before any file is parsed and before the series combiner is invoked, and
\* returns nothing.
C1_EmptyDirFails ==
  EmptyGlobRead =>
    /\ run.out.status = "FileNotFoundError"
    /\ run.out.status = ReadDcmFile(fs, "out.dcm", FALSE, FALSE, None).status
    /\ NothingRead

C1_Witness ==
  /\ EmptyGlobRead
  /\ \E p \in DirEntries : fs[p].kind = "dicom"
  /\ run.out.status # "ok"

\* the outcome of the same directory read had the files been enumerated as e
Reordered(e) == ReadDcmDir(fs, e, run.channels_axis)

SameOutcome(o) ==
  /\ o.calls = run.out.calls
  /\ o.samples = run.out.samples
  /\ o.status = run.out.status
  /\ o.img = run.out.img
  /\ o.affine = run.out.affine

\* C2 (as stated): for every set of series files and every two enumeration
\* orders of it, ties and absent instance numbers included, the directory read
\* hands the same sequence to the combiner, uses the same sample count and
\* returns the same array and affine.
C2_Original ==
  DirRead => \A e \in Enumerations(Glob(fs, run.globber)) : SameOutcome(Reordered(e))

\* no two parseable files of the set share a sort key
DistinctKeys(S) ==
  \A p, q \in S :
    (p # q /\ fs[p].kind = "dicom" /\ fs[q].kind = "dicom")
      => SortKey(fs[p].ds) # SortKey(fs[q].ds)

\* C2 (amended): for every set of series files of which no two have the same
\* instance number (an absent one counting as 0), every two enumeration orders
\* hand the same sequence to the combiner, use the same sample count and
\* return the same array and affine.
C2_Determinism ==
  (DirRead /\ DistinctKeys(Glob(fs, run.globber)))
    => \A e \in Enumerations(Glob(fs, run.globber)) : SameOutcome(Reordered(e))

C2_Witness ==
  /\ DirRead /\ DistinctKeys(Glob(fs, run.globber))
  /\ Len(run.files) = 3
  /\ run.out.status = "ok"
  /\ run.out.calls[1].series # [k \in 1..3 |-> Dcmread(fs, run.files[k]).ds]

\* the series handed to the combiner by the directory read
Handed == run.out.calls[1].series

CombinerReached == DirRead /\ run.out.calls # <<>>

IsPermutationOfParsed ==
  /\ Len(Handed) = Len(run.files)
  /\ \A k \in 1..Len(run.files) :
       \E j \in 1..Len(Handed) : Handed[j] = Dcmread(fs, run.files[k]).ds

NonDecreasing ==
  \A i, j \in 1..Len(Handed) :
    i < j => Get(Handed[i], "InstanceNumber", 0) <= Get(Handed[j], "InstanceNumber", 0)

\* position of a file in the enumeration
EnumPos(ds) == CHOOSE k \in 1..Len(run.files) : run.files[k] = ds["filename"]

UntaggedKeepOrder ==
  \A i, j \in 1..Len(Handed) :
    (i < j /\ ~Has(Handed[i], "InstanceNumber") /\ ~Has(Handed[j], "InstanceNumber"))
      => EnumPos(Handed[i]) < EnumPos(Handed[j])

UsesFirstSampleCount ==
  run.out.status = "ok" => run.out.samples = <<Handed[1]["SamplesPerPixel"]>>

\* C9 (as stated): the sequence handed to the combiner is a permutation of the
\* parsed files, non-decreasing in instance number (absent = 0); datasets
\* without the tag come before every dataset that has it and keep their
\* enumeration order; normalization uses the first dataset's sample count.
C9_Original ==
  CombinerReached =>
    /\ IsPermutationOfParsed /\ NonDecreasing /\ UntaggedKeepOrder /\ UsesFirstSampleCount
    /\ \A i, j \in 1..Len(Handed) :
         (~Has(Handed[i], "InstanceNumber") /\ Has(Handed[j], "InstanceNumber")) => i < j

\* C9 (amended): as stated, except that datasets without the tag come before
\* every dataset whose instance number is greater than 0 (a dataset tagged 0
\* ties with them and keeps its enumeration position).
C9_SortedSeries ==
  CombinerReached =>
    /\ IsPermutationOfParsed /\ NonDecreasing /\ UntaggedKeepOrder /\ UsesFirstSampleCount
    /\ \A i, j \in 1..Len(Handed) :
         (~Has(Handed[i], "InstanceNumber") /\ Get(Handed[j], "InstanceNumber", 0) > 0) => i < j

C9_Witness ==
  /\ CombinerReached /\ run.out.status = "ok" /\ Len(run.files) = 3
  /\ Has(Dcmread(fs, run.files[1]).ds, "InstanceNumber")
  /\ SortKey(Dcmread(fs, run.files[1]).ds) > 0
  /\ ~Has(Dcmread(fs, run.files[2]).ds, "InstanceNumber")
  /\ ~Has(Dcmread(fs, run.files[3]).ds, "InstanceNumber")
  /\ Handed[3]["filename"] = run.files[1]

ParsedFile == Dcmread(fs, run.input_path)

SameResult(o) ==
  /\ o.status = run.out.status /\ o.img = run.out.img /\ o.affine = run.out.affine
  /\ o.hasHeader = run.out.hasHeader /\ o.header = run.out.header

\* C6: a single-file read invokes exactly one reconstruction stage: the
\* multi-frame unpacker iff the dataset is multi-frame, with the caller's
\* allow_default_affine; otherwise the combiner on the one-element series of
\* that dataset.  allow_default_affine does not change the result of a
\* single-frame file read or of a directory read.
C6_OneStage ==
  /\ (FileRead /\ ParsedFile.status = "ok") =>
       /\ Len(run.out.calls) = 1
       /\ run.out.calls[1].series = <<ParsedFile.ds>>
       /\ (run.out.calls[1].stage = "unpack_dataset") <=> IsMultiFrame(ParsedFile.ds)
       /\ IsMultiFrame(ParsedFile.ds) => run.out.calls[1].allow = <<run.allow>>
       /\ ~IsMultiFrame(ParsedFile.ds) => run.out.calls[1] = CombineCall(<<ParsedFile.ds>>)
  /\ (DirRead \/ (FileRead /\ ParsedFile.status = "ok" /\ ~IsMultiFrame(ParsedFile.ds))) =>
       SameResult(ReadImg(fs, run.input_path, run.header, run.channels_axis,
                          run.files, ~run.allow))

C6_Witness ==
  /\ FileRead /\ ParsedFile.status = "ok" /\ IsMultiFrame(ParsedFile.ds)
  /\ ~Has(ParsedFile.ds, "PerFrameFunctionalGroupsSequence")
  /\ ~run.allow /\ run.out.status = "GeometryError"

\* C7: the metadata carries a header iff the read is a single-file read and
\* header was requested; the header then has one entry per key of the parsed
\* dataset, str(key) mapped to that tag's element.  A directory read never
\* populates the header.
C7_Header ==
  (run # <<>> /\ run.out.status = "ok") =>
    /\ run.out.hasHeader <=> (FileRead /\ run.header)
    /\ run.out.hasHeader =>
         /\ DOMAIN run.out.header = {TagStr(t) : t \in Keys(ParsedFile.ds)}
         /\ Cardinality(DOMAIN run.out.header) = Cardinality(Keys(ParsedFile.ds))
         /\ \A t \in Keys(ParsedFile.ds) :
              run.out.header[TagStr(t)] = Element(ParsedFile.ds, t)
    /\ ~run.out.hasHeader => run.out.header = <<>>

C7_Witness ==
  /\ FileRead /\ run.header /\ run.out.status = "ok"
  /\ run.out.hasHeader /\ "(0028, 1053)" \in DOMAIN run.out.header

\* ----------------------------------------------------------- write scenario

MaxPixel == 2

\* single-frame templates: a 2 x 2 or 1 x 2 pixel matrix with samples
\* 1 .. MaxPixel, with or without the rescale tags
PixelMatrices ==
  {[rows |-> 2, cols |-> 2, data |-> d] : d \in [1..4 -> 1..MaxPixel]}
  \cup {[rows |-> 1, cols |-> 2, data |-> d] : d \in [1..2 -> 1..MaxPixel]}

TemplateDs(m, slope, intercept) ==
  LET base == [SOPClassUID |-> "CTImageStorage", InstanceNumber |-> 1,
               ImagePositionPatient |-> 5, Rows |-> m.rows, Columns |-> m.cols,
               SamplesPerPixel |-> 1, PixelData |-> m.data]
      s1   == IF slope = None THEN base ELSE WithTag(base, "RescaleSlope", slope[1])
  IN  IF intercept = None THEN s1 ELSE WithTag(s1, "RescaleIntercept", intercept[1])

MultiTemplate ==
  WithTag(MultiScan, "PixelValueTransformationSequence", <<2, -1>>)

Templates ==
  {Dicom(TemplateDs(m, slope, intercept)) :
     m \in PixelMatrices, slope \in {None, Some(2)}, intercept \in {None, Some(-1)}}
  \cup {Dicom(MultiTemplate), Dicom(MultiScan), Garbage, NoFile}

WriteFileSystems ==
  {Fs(NoFile, NoFile, NoFile, t, out) :
     t \in Templates, out \in {NoFile, Dicom(SliceDs(1, None, 1))}}

InitWrite ==
  /\ fs \in WriteFileSystems
  /\ run = <<>>
  /\ rd = <<>> /\ wr = <<>>
  /\ AxisIdle

\* an array that no read returned
TestArray == [shape |-> <<2, 1, 1>>, data |-> <<7, 8>>]

\* no read was made before the write
NoRead == [input_path |-> "", fresh |-> FALSE, out |-> Fail("none", <<>>, <<>>)]

\* the scenario reads a file once before the write and once after it
ReadCall ==
  /\ rd = <<>> \/ (wr # <<>> /\ ~rd.fresh)
  /\ \E input_path \in {"scan.dcm", "out.dcm"} :
       rd' = [input_path |-> input_path, fresh |-> TRUE,
              out |-> ReadImg(fs, input_path, FALSE, None, <<>>, FALSE)]
  /\ UNCHANGED <<fs, run, wr, arr, prevArr, lastMove>>

\* the scenario writes once: the array is the one just read, or another one
SaveCall ==
  /\ wr = <<>>
  /\ \E output \in {"out.dcm", "scan.dcm"},
        img \in {TestArray} \cup (IF rd # <<>> /\ rd.out.status = "ok" THEN {rd.out.img} ELSE {}),
        dtype \in {NoDtype, "int16", "notatype"}, keep \in BOOLEAN,
        disk \in {"ok", "open_fails", "write_fails"} :
       LET w == SaveArr2DcmFile(fs, output, "scan.dcm", img, dtype, keep, disk)
       IN  /\ fs' = w.fs
           /\ wr' = [output |-> output, template |-> "scan.dcm", img |-> img,
                     dtype |-> dtype, keep |-> keep, disk |-> disk,
                     status |-> w.status, before |-> fs["scan.dcm"],
                     src |-> IF rd = <<>> THEN NoRead ELSE rd]
           /\ rd' = IF rd = <<>> THEN NoRead ELSE [rd EXCEPT !.fresh = FALSE]
  /\ UNCHANGED <<run, arr, prevArr, lastMove>>

NextWrite == ReadCall \/ SaveCall

SpecWrite == InitWrite /\ [][NextWrite]_vars

\* ------------------------------------------------ claims: write scenario

Wrote == wr # <<>>

\* the template dataset as the write parsed it
Template == wr.before.ds

TemplateParsed == Wrote /\ wr.before.kind = "dicom"

\* read a single-frame file, wrote the returned array back with that file as
\* template, keep_rescale and no dtype, and read the written file again
RoundTrip ==
  /\ Wrote /\ wr.status = "ok" /\ wr.keep /\ wr.dtype = NoDtype
  /\ wr.src.fresh /\ wr.src.out.status = "ok"
  /\ wr.src.input_path = wr.template
  /\ ~IsMultiFrame(Template)
  /\ wr.img = wr.src.out.img
  /\ rd.fresh /\ rd.input_path = wr.output

\* C3 (as stated): the round trip yields an array equal to the first read's
\* array and an affine equal to the first read's affine.
C3_Original ==
  RoundTrip => /\ rd.out.status = "ok"
               /\ rd.out.img = wr.src.out.img
               /\ rd.out.affine = wr.src.out.affine

\* the pixel matrix has the same samples row by row as column by column
ReadsSameTransposed(ds) == T(PixelArray(ds)).data = PixelArray(ds).data

NoRescaleTags(ds) == ~Has(ds, "RescaleSlope") /\ ~Has(ds, "RescaleIntercept")

\* C3 (amended): the round trip succeeds and yields an affine equal to the
\* first read's affine; the array equals the first read's array when the file
\* holds no rescale tag and the samples of the returned array, in C order, are
\* the file's pixel data, as for a grayscale pixel matrix that has the same
\* samples row by row as column by column (the array read is the transposed,
\* rescaled matrix, and its samples are written as they are).
C3_RoundTrip ==
  RoundTrip => /\ rd.out.status = "ok"
               /\ rd.out.affine = wr.src.out.affine
               /\ (NoRescaleTags(Template) /\ ToBytes(wr.src.out.img) = Template["PixelData"])
                    => rd.out.img = wr.src.out.img
               /\ (NoRescaleTags(Template) /\ Template["SamplesPerPixel"] = 1
                     /\ ReadsSameTransposed(Template))
                    => rd.out.img = wr.src.out.img

C3_Witness ==
  /\ RoundTrip /\ wr.output = "out.dcm"
  /\ NoRescaleTags(Template) /\ ReadsSameTransposed(Template)
  /\ Template["Rows"] = 2 /\ Template["PixelData"] = <<1, 2, 2, 1>>
  /\ rd.out.img = wr.src.out.img

\* the dataset in the output file
Written == fs[wr.output].ds

RemovedTags ==
  IF wr.keep THEN {}
  ELSE IF IsMultiFrame(Template) THEN {"PixelValueTransformationSequence"}
  ELSE {"RescaleSlope", "RescaleIntercept"}

\* C4: after a successful write the output dataset has the template's tags
\* and values, except that PixelData holds the bytes of the cast array and,
\* only when keep_rescale is false, the rescale tags (single frame) or the
\* intensity-transform tags (multi-frame) are gone.
C4_Frame ==
  (Wrote /\ wr.status = "ok") =>
    /\ fs[wr.output].kind = "dicom"
    /\ DOMAIN Written = (DOMAIN Template \ RemovedTags) \cup {"PixelData"}
    /\ \A t \in DOMAIN Written \ {"PixelData"} : Written[t] = Template[t]
    /\ Written["PixelData"] =
         ToBytes(Cast(wr.img, IF wr.dtype = NoDtype THEN "int16" ELSE wr.dtype).array)

C4_Witness ==
  /\ Wrote /\ wr.status = "ok" /\ wr.keep /\ wr.output = "out.dcm"
  /\ Has(Template, "RescaleSlope") /\ Has(Written, "RescaleSlope")
  /\ Written["PixelData"] # Template["PixelData"]

\* the spec's MissingTagError: the AttributeError of del on an absent tag
MissingTagError == "AttributeError"

LacksRescaleTag ==
  /\ TemplateParsed /\ ~IsMultiFrame(Template)
  /\ ~Has(Template, "RescaleSlope") \/ ~Has(Template, "RescaleIntercept")

\* C5: a write with keep_rescale false on a single-frame template without
\* the rescale-slope or the rescale-intercept tag fails with MissingTagError;
\* with keep_rescale true the same template never fails for that reason.
C5_MissingTag ==
  LacksRescaleTag => (wr.status = MissingTagError <=> ~wr.keep)

C5_Witness ==
  /\ LacksRescaleTag /\ ~wr.keep
  /\ Has(Template, "RescaleSlope") /\ ~Has(Template, "RescaleIntercept")
  /\ wr.status = MissingTagError

\* the call made in this step is a write that failed before save_as
EarlyFailure == wr = <<>> /\ wr' # <<>> /\ wr'.status \notin {"ok", "OSError"}

\* C10: the output file is written only as the last step of a write: when
\* the write fails while parsing the template, removing tags or casting, no
\* file is created or modified; and the template file is never modified when
\* the output path differs from the template path.
C10_WriteLast ==
  [][/\ EarlyFailure => fs' = fs
     /\ (wr = <<>> /\ wr' # <<>> /\ wr'.output # wr'.template)
          => fs'[wr'.template] = fs[wr'.template]]_vars

C10_Witness ==
  /\ Wrote /\ wr.status = "TypeError" /\ wr.output = "out.dcm"
  /\ ~wr.keep /\ Has(Template, "RescaleSlope")
  /\ fs["out.dcm"].kind = "none"

\* ------------------------------------------------- channel-axis scenario

MaxNdim == 3

\* grayscale and RGB
SampleCounts == {1, 3}

\* the array of the given rank with samples 1, 2, 3, ... in C order
Iota(ndim) ==
  LET shp == [k \in 1..ndim |-> 2]
  IN  [shape |-> shp, data |-> [p \in 1..Prod(shp) |-> p]]

ReadIdle == run = <<>> /\ rd = <<>> /\ wr = <<>> /\ fs = Fs(NoFile, NoFile, NoFile, NoFile, NoFile)

InitAxis ==
  /\ ReadIdle
  /\ arr \in {Iota(n) : n \in 1..MaxNdim}
  /\ prevArr = arr
  /\ lastMove = <<>>

\* a caller applies move_channels_axis to its array; when numpy raises, the
\* caller keeps the array it had
MoveChannelsAxisCall ==
  \E spp \in SampleCounts, source \in (0 - MaxNdim)..(MaxNdim - 1),
     channels_axis \in {None} \cup {Some(a) : a \in (0 - MaxNdim)..(MaxNdim - 1)} :
    LET r == MoveChannelsAxis(arr, spp, source, channels_axis)
    IN  /\ arr' = IF r.status = "ok" THEN r.array ELSE arr
        /\ prevArr' = arr
        /\ lastMove' = [samples_per_pixel |-> spp, source |-> source,
                        channels_axis |-> channels_axis, status |-> r.status]
        /\ UNCHANGED <<fs, run, rd, wr>>

NextAxis == MoveChannelsAxisCall

SpecAxis == InitAxis /\ [][NextAxis]_vars

\* ------------------------------------------------- claims: channel axis

Moved == lastMove # <<>> /\ lastMove.status = "ok"

\* the next call undoes the last one: (source, target) = (a, b), then (b, a)
ReverseOfLast ==
  /\ Moved /\ lastMove.samples_per_pixel > 1 /\ lastMove.channels_axis # None
  /\ lastMove'.status = "ok" /\ lastMove'.samples_per_pixel > 1
  /\ lastMove'.source = lastMove.channels_axis[1]
  /\ lastMove'.channels_axis = Some(lastMove.source)

\* C8: move_channels_axis leaves the array as it is when source = target,
\* when samples_per_pixel <= 1 and when no target axis is given; and for valid
\* axes (a, b) and samples_per_pixel > 1, moving (a, b) and then (b, a)
\* restores the original array.
C8_AxisMoves ==
  [][/\ (lastMove'.status = "ok" /\ (lastMove'.samples_per_pixel <= 1 \/ lastMove'.channels_axis = None))
          => arr' = arr
     /\ (lastMove'.status = "ok" /\ lastMove'.channels_axis = Some(lastMove'.source))
          => arr' = arr
     /\ ReverseOfLast => arr' = prevArr]_vars

C8_Witness ==
  /\ Moved /\ lastMove.samples_per_pixel > 1
  /\ Len(arr.shape) = 3
  /\ lastMove.source = 2 /\ lastMove.channels_axis = Some(-3)
  /\ prevArr # arr /\ arr = Iota(3)

=============================================================================
